---- MODULE Spec2Model ----
(***************************************************************************)
(* A model of django-shinobi's adaptation shims:                           *)
(*   - ninja/decorators.py : the asyncable descriptor (sync/async          *)
(*     dispatch) and decorate_view (view-decorator composition);           *)
(*   - ninja/schema.py     : DjangoGetter, Resolver, ResolverMetaclass,    *)
(*     NinjaGenerateJsonSchema.default_schema and Schema validation.       *)
(* Each component has its own specification (SpecAsync, SpecDeco, ...);    *)
(* the variables of the other components stay at their initial values.     *)
(***************************************************************************)
EXTENDS Integers, Sequences, FiniteSets, TLC

VARIABLES
    \* ---- asyncable (decorators.py 64-135)
    self_sync,      \* asyncable.__sync : the synchronous implementation
    self_async,     \* asyncable.__async : the asynchronous implementation or None
    running_loop,   \* whether asyncio.get_running_loop() succeeds right now
    held,           \* a bound method a caller obtained earlier and still holds
    calls,          \* history: every lookup / call made so far, in order
    registered,     \* history: the last asynchronous(method) call and its result
    \* ---- decorate_view (decorators.py 35-55)
    has_operation,  \* handler -> whether it carries _ninja_operation
    op_run,         \* handler -> its operation's run callable (<<>>: no operation)
    contrib,        \* handler -> its _ninja_contribute_to_operation callbacks
    given,          \* history: handler -> the decorators passed for it, in order
    last_step,      \* history: the operation performed last
    \* ---- ResolverMetaclass / Schema validation (schema.py 170-283)
    classes,        \* the schema classes defined so far; classes[1] is Schema
    dicts,          \* the heap of resolver dicts; a class refers to one by index
    validated,      \* history: the validation performed last
    \* ---- DjangoGetter (schema.py 65-151)
    getter,         \* the adapter in use: _obj, _schema_cls resolvers, _context
    looked,         \* history: the attribute lookup performed last on it
    \* ---- NinjaGenerateJsonSchema (schema.py 237-257)
    properties,     \* history: the fields default_schema has rendered, in order
    \* ---- Schema._run_root_validator / model_validate (schema.py 264-283)
    root            \* history: the last validation run and its handler calls

varsAsync == <<self_sync, self_async, running_loop, held, calls, registered>>

varsDeco == <<has_operation, op_run, contrib, given, last_step>>

varsMeta == <<classes, dicts, validated>>

varsGetter == <<getter, looked>>

varsJson == <<properties>>

varsRoot == <<root>>

vars == <<varsAsync, varsDeco, varsMeta, varsGetter, varsJson, varsRoot>>

\* What an action of one component leaves alone: the other components.
notAsync == <<varsDeco, varsMeta, varsGetter, varsJson, varsRoot>>

notDeco == <<varsAsync, varsMeta, varsGetter, varsJson, varsRoot>>

notMeta == <<varsAsync, varsDeco, varsGetter, varsJson, varsRoot>>

notGetter == <<varsAsync, varsDeco, varsMeta, varsJson, varsRoot>>

notJson == <<varsAsync, varsDeco, varsMeta, varsGetter, varsRoot>>

notRoot == <<varsAsync, varsDeco, varsMeta, varsGetter, varsJson>>

None == "None"

\* No bound method is held.
NoHeld == [kind |-> "none", lookup_ctx |-> "none"]

Range(s) == { s[i] : i \in DOMAIN s }

(***************************************************************************)
(*                     asyncable  (ninja/decorators.py)                    *)
(***************************************************************************)

\* Bound on the length of the recorded call history.
MaxCalls == 3

SyncImpls == { "sync_impl" }
AsyncImpls == { "async_impl_1", "async_impl_2" }

NoAsyncError ==
    "RuntimeError: Attempting to call asyncable with await, but no asynchronous call has been defined"

Ctx(loop) == IF loop THEN "async" ELSE "sync"

\* asyncable.__is_awaited: True iff an event loop is running.
is_awaited_flipped == ~running_loop

is_awaited == running_loop

\* asyncable.__get__(instance, ownerclass): the descriptor itself for a class
\* lookup, otherwise a closure chosen NOW from __is_awaited(), or RuntimeError.
get_always_sync(instance) ==
    IF instance = None THEN [kind |-> "descriptor"]
    ELSE [kind |-> "sync_closure", lookup_ctx |-> Ctx(running_loop)]

get(instance) ==
    IF instance = None THEN [kind |-> "descriptor"]
    ELSE IF is_awaited
         THEN IF self_async = None
              THEN [kind |-> "raise", error |-> NoAsyncError]
              ELSE [kind |-> "async_closure", lookup_ctx |-> Ctx(running_loop)]
         ELSE [kind |-> "sync_closure", lookup_ctx |-> Ctx(running_loop)]

\* Calling a closure returned by __get__.  sync_closure binds and runs
\* self.__sync; async_closure is a coroutine function: its body (which binds
\* and awaits self.__async, read at that moment) runs only when the coroutine
\* is driven (awaited by an asynchronous caller, or run by a synchronous one).
call_closure(closure, driven) ==
    IF closure.kind = "sync_closure"
    THEN [ran |-> self_sync, outcome |-> "returned", error |-> None]
    ELSE IF driven
         THEN [ran |-> self_async, outcome |-> "returned", error |-> None]
         ELSE [ran |-> None, outcome |-> "coroutine_not_run", error |-> None]

\* asyncable.__call__: the descriptor called directly; the mode is read here.
call_no_check ==
    IF is_awaited
    THEN [ran |-> self_async, outcome |-> "returned", error |-> None]
    ELSE [ran |-> self_sync, outcome |-> "returned", error |-> None]

call ==
    IF is_awaited
    THEN IF self_async = None
         THEN [ran |-> None, outcome |-> "raised", error |-> NoAsyncError]
         ELSE [ran |-> self_async, outcome |-> "returned", error |-> None]
    ELSE [ran |-> self_sync, outcome |-> "returned", error |-> None]

\* One entry of the history: how the method was reached (via), the context of
\* the lookup and of the call, what was registered then, and what happened.
Record(via, lookup_ctx, r) ==
    [via |-> via, lookup_ctx |-> lookup_ctx, call_ctx |-> Ctx(running_loop),
     sync |-> self_sync, async |-> self_async,
     ran |-> r.ran, outcome |-> r.outcome, error |-> r.error]

\* No asynchronous implementation has been registered.
NoRegistration == [method |-> None, returned |-> None]

\* asyncable.asynchronous(method): registers the asynchronous implementation
\* (self.__async = method) and returns the descriptor (return self).
asynchronous_replacing_sync(method) ==
    /\ self_sync' = method
    /\ registered' = [method |-> method, returned |-> method]
    /\ UNCHANGED <<self_async, running_loop, held, calls>>
    /\ UNCHANGED notAsync

asynchronous(method) ==
    /\ self_async' = method
    /\ registered' = [method |-> method, returned |-> "self"]
    /\ UNCHANGED <<self_sync, running_loop, held, calls>>
    /\ UNCHANGED notAsync

\* The caller's context changes: an event loop starts or stops running.
start_loop ==
    /\ ~running_loop
    /\ running_loop' = TRUE
    /\ UNCHANGED <<self_sync, self_async, held, calls, registered>>
    /\ UNCHANGED notAsync

stop_loop ==
    /\ running_loop
    /\ running_loop' = FALSE
    /\ UNCHANGED <<self_sync, self_async, held, calls, registered>>
    /\ UNCHANGED notAsync

\* obj.method(...): attribute lookup (__get__) and call in one expression.
\* An asynchronous caller awaits the coroutine it gets.
invoke_on_instance ==
    /\ Len(calls) < MaxCalls
    /\ LET g == get("instance")
       IN calls' = Append(calls,
             IF g.kind = "raise"
             THEN Record("attribute", Ctx(running_loop),
                         [ran |-> None, outcome |-> "raised", error |-> g.error])
             ELSE Record("attribute", g.lookup_ctx, call_closure(g, TRUE)))
    /\ UNCHANGED <<self_sync, self_async, running_loop, held, registered>>
    /\ UNCHANGED notAsync

\* m = obj.method : the lookup alone; the caller keeps the bound method.
lookup_on_instance ==
    /\ Len(calls) < MaxCalls
    /\ LET g == get("instance")
       IN IF g.kind = "raise"
          THEN /\ calls' = Append(calls, Record("lookup", Ctx(running_loop),
                         [ran |-> None, outcome |-> "raised", error |-> g.error]))
               /\ held' = held
          ELSE /\ held' = g
               /\ calls' = calls
    /\ UNCHANGED <<self_sync, self_async, running_loop, registered>>
    /\ UNCHANGED notAsync

\* m(...) : a bound method obtained earlier is called, possibly in another
\* context.  A synchronous caller may or may not drive the coroutine it gets.
call_held ==
    /\ Len(calls) < MaxCalls
    /\ held # NoHeld
    /\ \E driven \in BOOLEAN :
          /\ (running_loop => driven)
          /\ (held.kind = "sync_closure" => driven)
          /\ calls' = Append(calls,
                Record("held", held.lookup_ctx, call_closure(held, driven)))
    /\ UNCHANGED <<self_sync, self_async, running_loop, held, registered>>
    /\ UNCHANGED notAsync

\* Cls.method(obj, ...): __get__(None, Cls) returns the descriptor, then __call__.
call_descriptor ==
    /\ Len(calls) < MaxCalls
    /\ get(None).kind = "descriptor"
    /\ calls' = Append(calls, Record("descriptor", Ctx(running_loop), call))
    /\ UNCHANGED <<self_sync, self_async, running_loop, held, registered>>
    /\ UNCHANGED notAsync

NextAsync ==
    \/ \E m \in AsyncImpls : asynchronous(m)
    \/ start_loop
    \/ stop_loop
    \/ invoke_on_instance
    \/ lookup_on_instance
    \/ call_held
    \/ call_descriptor

(***************************************************************************)
(*                    decorate_view  (ninja/decorators.py)                 *)
(***************************************************************************)

\* Bounds: decorators per decorate_view call, decorate_view calls in a run.
MaxDecorators == 2

MaxDecorateCalls == 2

Handlers == { "view_a", "view_b" }
Decorators == { "A", "B" }

\* The tuples of decorators a decorate_view call may be given.
DecoratorTuples == UNION { [1..n -> Decorators] : n \in 0..MaxDecorators }

\* The run callable of a fresh operation, and deco(run): a callable is written
\* outermost wrapper first, so B(A(run)) is <<"B", "A", "run">>.
OriginalRun == << "run" >>

Wrap_applying_twice(deco, run) == << deco, deco >> \o run

Wrap(deco, run) == << deco >> \o run

\* _apply_decorators(decorators, operation): for deco in decorators:
\*     operation.run = deco(operation.run)
RECURSIVE apply_decorators_backwards(_, _)
apply_decorators_backwards(decorators, run) ==
    IF decorators = << >> THEN run
    ELSE Wrap(Head(decorators), apply_decorators_backwards(Tail(decorators), run))

RECURSIVE apply_decorators(_, _)
apply_decorators(decorators, run) ==
    IF decorators = << >> THEN run
    ELSE apply_decorators(Tail(decorators), Wrap(Head(decorators), run))

\* hasattr(op_func, "_ninja_operation"): decorate_view sits on top of @api.method.
on_top_never(op_func) == FALSE

on_top(op_func) == has_operation[op_func]

\* contribute_operation_callback(func, callback): the callback joins the
\* handler's list, to be run when the handler is registered.
contribute_operation_callback(callbacks, callback) == Append(callbacks, callback)

\* The callbacks of a handler run on its new operation, in the order given.
RECURSIVE run_callbacks(_, _)
run_callbacks(callbacks, run) ==
    IF callbacks = << >> THEN run
    ELSE run_callbacks(Tail(callbacks), apply_decorators(Head(callbacks), run))

\* The number of decorate_view calls made so far.
DecorateCalls == Len(given["view_a"]) + Len(given["view_b"])

\* decorate_view(*decorators)(op_func): outer_wrapper; returns op_func.
decorate_view(decorators, op_func) ==
    /\ DecorateCalls < MaxDecorateCalls
    /\ IF on_top(op_func)
       THEN /\ op_run' = [op_run EXCEPT ![op_func] = apply_decorators(decorators, @)]
            /\ contrib' = contrib
       ELSE /\ contrib' = [contrib EXCEPT ![op_func] =
                              contribute_operation_callback(@, decorators)]
            /\ op_run' = op_run
    /\ given' = [given EXCEPT ![op_func] = Append(@, decorators)]
    /\ last_step' = [op |-> "decorate_view", handler |-> op_func,
                     decorators |-> decorators, returned |-> op_func]
    /\ UNCHANGED has_operation
    /\ UNCHANGED notDeco

\* @api.get(...) on the handler: the operation is created with the original
\* run, the handler's callbacks run on it, and the handler gets _ninja_operation.
register(view_func) ==
    /\ ~has_operation[view_func]
    /\ op_run' = [op_run EXCEPT ![view_func] =
                     run_callbacks(contrib[view_func], OriginalRun)]
    /\ has_operation' = [has_operation EXCEPT ![view_func] = TRUE]
    /\ last_step' = [op |-> "register", handler |-> view_func,
                     decorators |-> << >>, returned |-> view_func]
    /\ UNCHANGED <<contrib, given>>
    /\ UNCHANGED notDeco

NoStep == [op |-> "none", handler |-> "none", decorators |-> << >>, returned |-> "none"]

NextDeco ==
    \/ \E h \in Handlers, ds \in DecoratorTuples : decorate_view(ds, h)
    \/ \E h \in Handlers : register(h)

(***************************************************************************)
(*          ResolverMetaclass and Schema validation (ninja/schema.py)      *)
(***************************************************************************)

\* Bound on the number of schema classes defined below Schema.
MaxClasses == 2

\* The field names a class body may declare resolve_<name> for.
ResolverNames == { "name", "initials" }

\* What a class body may bind resolve_<name> to.
AttrKinds == { "staticmethod", "function", "not_callable" }

\* The values a schema may be validated from.
BackingValues == { "an_object" }

ValidationContext == "ctx"

EmptyDict == [k \in {} |-> None]

\* dict.update(other)
Update(d, other) ==
    [k \in DOMAIN d \cup DOMAIN other |-> IF k \in DOMAIN other THEN other[k] ELSE d[k]]

\* Resolver.__init__(func): a staticmethod is unwrapped and marked static.
Resolver(cls_id, attr, kind) ==
    [func |-> << cls_id, attr >>, static |-> (kind = "staticmethod")]

\* resolvers = {} : a fresh dict on the heap (its index is its identity).
fresh_dict_aliasing_base(heap, bases) ==
    IF bases = << >>
    THEN [heap |-> Append(heap, EmptyDict), ref |-> Len(heap) + 1]
    ELSE [heap |-> heap, ref |-> classes[bases[1]].ninja_resolvers]

fresh_dict(heap, bases) ==
    [heap |-> Append(heap, EmptyDict), ref |-> Len(heap) + 1]

\* for base in reversed(bases): base_resolvers = getattr(base,
\* "_ninja_resolvers", None); if base_resolvers: resolvers.update(base_resolvers)
RECURSIVE update_from_bases(_, _, _)
update_from_bases(heap, ref, bases) ==
    IF bases = << >> THEN heap
    ELSE LET base == bases[Len(bases)]
             base_resolvers == heap[classes[base].ninja_resolvers]
             rest == SubSeq(bases, 1, Len(bases) - 1)
         IN update_from_bases(
               IF DOMAIN base_resolvers # {}
               THEN [heap EXCEPT ![ref] = Update(@, base_resolvers)]
               ELSE heap,
               ref, rest)

\* for attr, resolve_func in namespace.items(): keep resolve_* entries that are
\* callable or a staticmethod; resolvers[attr[8:]] = Resolver(resolve_func)
own_resolvers(cls_id, namespace) ==
    [k \in { a \in DOMAIN namespace : namespace[a] # "not_callable" }
        |-> Resolver(cls_id, k, namespace[k])]

\* if resolvers: namespace["__ninja_resolvers_validator"] =
\*     model_validator(mode="before")(_validate_resolvers)
installs_validator_always(resolvers) == TRUE

installs_validator(resolvers) == DOMAIN resolvers # {}

\* The class bodies: which resolve_<name> attributes they bind, and to what.
Namespaces == UNION { [S -> AttrKinds] : S \in SUBSET ResolverNames }

\* The base-class lists Python accepts: distinct existing classes, none listed
\* before one of its own subclasses (otherwise no consistent MRO exists).
BaseLists ==
    { bs \in UNION { [1..n -> DOMAIN classes] : n \in 1..Len(classes) } :
        /\ \A i, j \in DOMAIN bs : i # j => bs[i] # bs[j]
        /\ \A i, j \in DOMAIN bs : i < j => bs[i] \notin classes[bs[j]].ancestors }

\* ResolverMetaclass.__new__(cls, name, bases, namespace): the class statement.
\* The before-validators of a pydantic model are its own and its bases'.
new(bases, namespace) ==
    /\ LET cls_id == Len(classes) + 1
           d0 == fresh_dict(dicts, bases)
           h1 == update_from_bases(d0.heap, d0.ref, bases)
           h2 == [h1 EXCEPT ![d0.ref] = Update(@, own_resolvers(cls_id, namespace))]
           resolvers == h2[d0.ref]
       IN /\ dicts' = h2
          /\ classes' = Append(classes,
                [bases |-> bases,
                 namespace |-> namespace,
                 ancestors |-> Range(bases) \cup
                               UNION { classes[bases[i]].ancestors : i \in DOMAIN bases },
                 ninja_resolvers |-> d0.ref,
                 resolvers_at_definition |-> resolvers,
                 before_validators |->
                    (IF installs_validator(resolvers)
                     THEN { "__ninja_resolvers_validator" } ELSE {})
                    \cup UNION { classes[bases[i]].before_validators : i \in DOMAIN bases }])
    /\ UNCHANGED validated
    /\ UNCHANGED notMeta

\* _validate_resolvers(cls, value, info): DjangoGetter(value, cls, info.context)
validate_resolvers(cls, value, context) ==
    [kind |-> "DjangoGetter", obj |-> value, schema_cls |-> cls, context |-> context]

\* Schema.from_orm(obj) = cls.model_validate(obj): the class's before-validators
\* run on the value, then the validation library populates the fields from what
\* they returned.  (Schema._run_root_validator is a plain classmethod: its
\* model_validator decorator is commented out, so validation never enters it.)
from_orm(cls, obj) ==
    /\ validated' =
          [cls |-> cls, value |-> obj,
           populated_from |->
              IF "__ninja_resolvers_validator" \in classes[cls].before_validators
              THEN validate_resolvers(cls, obj, ValidationContext)
              ELSE [kind |-> "raw", obj |-> obj, schema_cls |-> 0, context |-> None]]
    /\ UNCHANGED <<classes, dicts>>
    /\ UNCHANGED notMeta

NotValidated ==
    [cls |-> 0, value |-> None,
     populated_from |-> [kind |-> "none", obj |-> None, schema_cls |-> 0, context |-> None]]

\* class Schema(BaseModel, metaclass=ResolverMetaclass): no resolve_* attribute,
\* and BaseModel has no _ninja_resolvers.
SchemaClass ==
    [bases |-> << >>, namespace |-> EmptyDict, ancestors |-> {},
     ninja_resolvers |-> 1, resolvers_at_definition |-> EmptyDict,
     before_validators |-> {}]

\* A class statement "class X(*bases): <namespace>" is executed.
define_class ==
    /\ Len(classes) < MaxClasses + 1
    /\ \E bs \in BaseLists, ns \in Namespaces : new(bs, ns)

NextMeta ==
    \/ define_class
    \/ \E c \in DOMAIN classes, v \in BackingValues : from_orm(c, v)

(***************************************************************************)
(*                 DjangoGetter and Resolver (ninja/schema.py)             *)
(***************************************************************************)

\* Values.  A key is the sequence of the dot-separated parts of its string:
\* "boss.first_name" is <<"boss", "first_name">>.
Plain(x) == [kind |-> "plain", payload |-> x]

PyNone == [kind |-> "none"]

ManagerOf(rows) == [kind |-> "manager", rows |-> rows]

QuerySetOf(rows) == [kind |-> "queryset", rows |-> rows]

ListOf(rows) == [kind |-> "list", rows |-> rows]

CallableReturning(v) == [kind |-> "callable", returns |-> v]

\* A FieldFile; an unset one has an empty name and is falsy.
FieldFileOf(name) == [kind |-> "fieldfile", name |-> name]

ObjectWith(items) == [kind |-> "object", items |-> items]

DictWith(items) == [kind |-> "dict", items |-> items]

\* The names Django refuses in a template variable: those beginning with "_".
UnderscoreNames == { "_id" }

Boss ==
    ObjectWith(<< "first_name" >> :> Plain("Sam")
            @@ << "full_name" >> :> CallableReturning(Plain("Sam Boss"))
            @@ << "friends" >> :> ManagerOf(<< "f1" >>))

\* The backing values an adapter may wrap.
BackingObjects ==
    { ObjectWith(<< "name" >> :> Plain("Ann")
              @@ << "boss" >> :> Boss
              @@ << "friends" >> :> ManagerOf(<< "f1", "f2" >>)
              @@ << "pending" >> :> QuerySetOf(<< "p1", "p2" >>)
              @@ << "avatar" >> :> FieldFileOf("ann.png")
              @@ << "full_name" >> :> CallableReturning(Plain("Ann Lee"))),
      ObjectWith(<< "name" >> :> Plain("Bob")
              @@ << "avatar" >> :> FieldFileOf("")),
      ObjectWith(<< "name" >> :> Plain("Cy")
              @@ << "_id" >> :> Plain("7")),
      DictWith(<< "name" >> :> Plain("Ann")
            @@ << "boss", "first_name" >> :> Plain("Dee")
            @@ << "friends" >> :> ManagerOf(<< "f3" >>)
            @@ << "avatar" >> :> FieldFileOf("")
            @@ << "full_name" >> :> CallableReturning(Plain("Ann D"))),
      DictWith(<< "first_name" >> :> Plain("Ann")
            @@ << "boss" >> :> DictWith(<< "first_name" >> :> Plain("Sam"))
            @@ << "pending" >> :> QuerySetOf(<< "p3" >>)) }

\* The keys looked up on the adapter.
Keys ==
    { << "name" >>, << "boss", "first_name" >>, << "boss", "full_name" >>,
      << "boss", "friends" >>, << "boss", "salary" >>, << "_id" >>,
      << "friends" >>, << "pending" >>, << "avatar" >>, << "full_name" >> }

Contexts == { PyNone, Plain("request") }

\* The resolver functions, named by what they compute, and their signatures:
\*   def full_name_of(obj)             def full_name_in(obj, context)
\*   def friends_of(obj)               def pending_of(obj, **kwargs)
\*   def greeter_of(obj)
Signature(func) ==
    CASE func = "full_name_in" -> [names |-> << "obj", "context" >>, var_keyword |-> FALSE]
      [] func = "pending_of"   -> [names |-> << "obj", "kwargs" >>, var_keyword |-> TRUE]
      [] OTHER                 -> [names |-> << "obj" >>, var_keyword |-> FALSE]

\* ninja.signature.utils.get_args_names(func): the names of func's parameters.
get_args_names(func) == Signature(func).names

\* ninja.signature.utils.has_kwargs(func): whether func has a **kwargs parameter.
has_kwargs(func) == Signature(func).var_keyword

\* self._takes_context = has_kwargs(self._func) or "context" in arg_names
takes_context_if_named(func) == "context" \in Range(get_args_names(func))

takes_context(func) ==
    LET arg_names == get_args_names(func)
    IN has_kwargs(func) \/ "context" \in Range(arg_names)

\* Resolver.__init__(staticmethod(func)): _static, _func and _takes_context.
StaticResolver(func) ==
    [func |-> func, static |-> TRUE, takes_context |-> takes_context(func)]

\* The _ninja_resolvers mappings of the schema classes an adapter may serve.
GetterSchemas ==
    { [k \in {} |-> None],
      << "name" >> :> StaticResolver("full_name_of"),
      << "name" >> :> StaticResolver("full_name_in")
         @@ << "friends" >> :> StaticResolver("friends_of"),
      << "boss", "first_name" >> :> StaticResolver("pending_of")
         @@ << "avatar" >> :> StaticResolver("greeter_of") }

\* What the resolver functions return, given the backing object and kwargs.
resolver_result(func, obj, kwargs) ==
    CASE func = "full_name_of" -> Plain(<< "full name", DOMAIN kwargs >>)
      [] func = "full_name_in" -> Plain(<< "full name", DOMAIN kwargs >>)
      [] func = "friends_of"   -> ManagerOf(<< "r1", "r2" >>)
      [] func = "pending_of"   -> QuerySetOf(<< "q1" >>)
      [] OTHER                 -> CallableReturning(Plain("hello"))

\* Resolver.__call__(getter): kwargs["context"] = getter._context if the function
\* takes it; a static function is called with getter._obj; others are rejected.
resolver_call(resolver, g) ==
    LET kwargs == IF resolver.takes_context
                  THEN "context" :> g.context
                  ELSE [k \in {} |-> None]
    IN IF resolver.static
       THEN [status |-> "value", source |-> "resolver",
             raw |-> resolver_result(resolver.func, g.obj, kwargs),
             call |-> [args |-> << g.obj >>, kwargs |-> kwargs]]
       ELSE [status |-> "raise", error |-> "NotImplementedError",
             arg |-> "Non static resolves are not supported yet"]

NoCall == [args |-> << >>, kwargs |-> [k \in {} |-> None]]

\* django.template.Variable(key): __init__ rejects a variable with a part that
\* begins with an underscore (TemplateSyntaxError); resolve(obj) walks the
\* parts, by item or attribute, calling a callable it meets, and raises
\* VariableDoesNotExist when a part is missing.
RECURSIVE resolve_lookup(_, _)
resolve_lookup(current, lookups) ==
    IF lookups = << >> THEN [status |-> "value", value |-> current]
    ELSE IF current.kind \in { "object", "dict" }
            /\ << Head(lookups) >> \in DOMAIN current.items
         THEN LET found == current.items[<< Head(lookups) >>]
              IN resolve_lookup(
                    IF found.kind = "callable" THEN found.returns ELSE found,
                    Tail(lookups))
         ELSE [status |-> "raise", error |-> "VariableDoesNotExist"]

Variable_resolve(key, obj) ==
    IF \E i \in DOMAIN key : key[i] \in UnderscoreNames
    THEN [status |-> "raise", error |-> "TemplateSyntaxError"]
    ELSE resolve_lookup(obj, key)

\* DjangoGetter._convert_result(result)
convert_result_eager(result) ==
    IF result.kind \in { "manager", "queryset" } THEN ListOf(result.rows)
    ELSE IF result.kind = "callable" THEN result.returns
    ELSE IF result.kind = "fieldfile"
         THEN IF result.name = "" THEN PyNone ELSE Plain(<< "url", result.name >>)
    ELSE result

convert_result(result) ==
    IF result.kind = "manager" THEN ListOf(QuerySetOf(result.rows).rows)
    ELSE IF result.kind = "queryset" THEN result
    ELSE IF result.kind = "callable" THEN result.returns
    ELSE IF result.kind = "fieldfile"
         THEN IF result.name = "" THEN PyNone ELSE Plain(<< "url", result.name >>)
    ELSE result

\* The lookup steps of DjangoGetter.__getattr__(key), before the conversion.
find_value(g, key) ==
    IF key \in DOMAIN g.resolvers
    THEN resolver_call(g.resolvers[key], g)
    ELSE IF g.obj.kind = "dict"
         THEN IF key \notin DOMAIN g.obj.items
              THEN [status |-> "raise", error |-> "AttributeError", arg |-> key]
              ELSE [status |-> "value", source |-> "dict",
                    raw |-> g.obj.items[key], call |-> NoCall]
         ELSE IF key \in DOMAIN g.obj.items
              THEN [status |-> "value", source |-> "attribute",
                    raw |-> g.obj.items[key], call |-> NoCall]
              ELSE LET v == Variable_resolve(key, g.obj)
                   IN IF v.status = "value"
                      THEN [status |-> "value", source |-> "dotted_path",
                            raw |-> v.value, call |-> NoCall]
                      ELSE IF v.error = "VariableDoesNotExist"
                           THEN [status |-> "raise", error |-> "AttributeError",
                                 arg |-> key]
                           ELSE [status |-> "raise", error |-> v.error, arg |-> key]

\* DjangoGetter.__init__(obj, schema_cls, context)
DjangoGetter(obj, schema_resolvers, context) ==
    /\ getter' = [obj |-> obj, resolvers |-> schema_resolvers, context |-> context]
    /\ looked' = [key |-> << >>, status |-> "none"]
    /\ UNCHANGED notGetter

\* DjangoGetter.__getattr__(key)
getattr(key) ==
    /\ getter.obj.kind # "none"
    /\ LET f == find_value(getter, key)
       IN looked' =
             IF f.status = "value"
             THEN [key |-> key, status |-> "value", source |-> f.source,
                   raw |-> f.raw, call |-> f.call,
                   result |-> convert_result(f.raw)]
             ELSE [key |-> key, status |-> "raise", error |-> f.error,
                   arg |-> f.arg]
    /\ UNCHANGED getter
    /\ UNCHANGED notGetter

NextGetter ==
    \/ \E o \in BackingObjects, r \in GetterSchemas, c \in Contexts :
          DjangoGetter(o, r, c)
    \/ \E k \in Keys : getattr(k)

(***************************************************************************)
(*        NinjaGenerateJsonSchema.default_schema (ninja/schema.py)         *)
(***************************************************************************)

\* Bound on the number of fields with a default rendered in one generation.
MaxFields == 2

\* The inner core schemas of a field, named by the type they describe.
InnerSchemas == { "str", "int", "SubModel", "SubModelWithExamples", "OptionalStr" }

\* self.generate_inner(schema["schema"]): the JSON schema of the inner schema.
\* A model renders as a reference; an annotation that adds examples to it puts
\* them beside the $ref.
generate_inner(inner) ==
    CASE inner = "str" -> "type" :> "string"
      [] inner = "int" -> "type" :> "integer" @@ "title" :> "Age"
      [] inner = "SubModel" -> "$ref" :> "#/$defs/SubModel"
      [] inner = "SubModelWithExamples" ->
            "$ref" :> "#/$defs/SubModel" @@ "examples" :> "[...]"
      [] OTHER -> "anyOf" :> "[string, null]"

\* The declared defaults; "None" is Python's None.
Defaults == { None, "", "0", "text", "Color.RED" }

\* The with-default core schemas: a "default" key may be absent (a
\* default_factory), None, or another value.
DefaultSchemas ==
    { [schema |-> i, has_default |-> h, default |-> d] :
         i \in InnerSchemas, h \in BOOLEAN, d \in Defaults } \
    { sc \in [schema : InnerSchemas, has_default : { FALSE }, default : Defaults] :
         sc.default # None }

\* self.encode_default(dft): the JSON form of a default (an enum member becomes
\* its value).
encode_default(dft) == IF dft = "Color.RED" THEN "red" ELSE dft

\* "default" in schema and schema["default"] is not None
declares_default(schema) == schema.has_default /\ schema.default # None

\* "$ref" in json_schema
is_reference_bare_only(json_schema) == DOMAIN json_schema = { "$ref" }

is_reference(json_schema) == "$ref" \in DOMAIN json_schema

\* NinjaGenerateJsonSchema.default_schema(schema): the rendered field schema.
default_schema_result(schema) ==
    LET json_schema == generate_inner(schema.schema)
        default == IF declares_default(schema)
                   THEN encode_default(schema.default) ELSE None
        result == IF is_reference(json_schema)
                  THEN "allOf" :> << json_schema >>
                  ELSE json_schema
    IN IF default # None
       THEN ("default" :> default) @@ result
       ELSE result

\* Schema.json_schema() renders the next field that has a default.
default_schema(schema) ==
    /\ Len(properties) < MaxFields
    /\ properties' = Append(properties,
          [schema |-> schema, result |-> default_schema_result(schema)])
    /\ UNCHANGED notJson

\* A new generation starts: Schema.json_schema() is called again.
json_schema ==
    /\ properties # << >>
    /\ properties' = << >>
    /\ UNCHANGED notJson

NextJson ==
    \/ \E sc \in DefaultSchemas : default_schema(sc)
    \/ json_schema

(***************************************************************************)
(*   Schema._run_root_validator and Schema.model_validate (ninja/schema.py) *)
(***************************************************************************)

\* model_config of a schema class, as the two settings _run_root_validator
\* reads: model_config.get("extra") (None when unset) and
\* model_config.get("validate_assignment", False).
ModelConfigs ==
    [extra : { None, "forbid", "ignore" }, validate_assignment : BOOLEAN]

\* The _ninja_resolvers mappings of the schema classes validated here.
RootResolvers == { EmptyDict, "name" :> Resolver(2, "name", "staticmethod") }

\* The schema classes validated here.
RootSchemas == [model_config : ModelConfigs, ninja_resolvers : RootResolvers]

\* A raw backing value handed to validation.
RawValue(v) == [kind |-> "raw", obj |-> v]

RootValues == { RawValue("an_object"), RawValue("a_dict") }

\* info.context of a validation.
RootContexts == { None, ValidationContext }

\* The kinds of value the validation library's own validation (the handler)
\* may reject with a ValidationError.
FailureSets == SUBSET { "raw", "DjangoGetter" }

\* handler(values): the validation library validates values and returns the
\* instance, or raises ValidationError.
handler(values, fails) ==
    IF values.kind \in fails THEN "ValidationError" ELSE "instance"

\* cls.model_config.get("extra") == "forbid"
forbids_extra(cls) == cls.model_config.extra = "forbid"

\* cls.model_config.get("validate_assignment", False)
should_validate_assignment(cls) == cls.model_config.validate_assignment

\* Schema._run_root_validator(values, handler, info): the values the handler is
\* called with, in order, and how the call ends.  A ValidationError of the
\* first handler call propagates, so the second is not made.
run_root_validator(cls, values, context, fails) ==
    LET direct == forbids_extra(cls) \/ should_validate_assignment(cls)
        wrapped == validate_resolvers(cls, values, context)
    IN IF direct /\ handler(values, fails) = "ValidationError"
       THEN [calls |-> << values >>, outcome |-> "ValidationError"]
       ELSE [calls |-> (IF direct THEN << values >> ELSE << >>) \o << wrapped >>,
             outcome |-> handler(wrapped, fails)]

\* "# @model_validator(mode="wrap")": the decorator that would register
\* _run_root_validator with the validation library is commented out.
root_validator_registered_anyway == TRUE

root_validator_registered == FALSE

\* cls.model_validate(obj, context=...), which Schema.from_orm calls: the
\* class's before-validator (installed when it has resolvers) runs on the value,
\* then the registered wrap validator, if any, else the handler itself.
model_validate_result(cls, obj, context, fails) ==
    LET value == IF installs_validator(cls.ninja_resolvers)
                 THEN validate_resolvers(cls, obj, context)
                 ELSE obj
    IN IF root_validator_registered
       THEN run_root_validator(cls, value, context, fails)
       ELSE [calls |-> << value >>, outcome |-> handler(value, fails)]

RootRun(entry, cls, values, context, r) ==
    [entry |-> entry, cls |-> cls, values |-> values, context |-> context,
     calls |-> r.calls, outcome |-> r.outcome]

\* Validation of obj into cls by the validation library.
model_validate(cls, obj, context, fails) ==
    /\ root' = RootRun("model_validate", cls, obj, context,
                       model_validate_result(cls, obj, context, fails))
    /\ UNCHANGED notRoot

\* A direct call cls._run_root_validator(values, handler, info).
call_run_root_validator(cls, values, context, fails) ==
    /\ root' = RootRun("_run_root_validator", cls, values, context,
                       run_root_validator(cls, values, context, fails))
    /\ UNCHANGED notRoot

NoRun == [entry |-> "none"]

NextRoot ==
    \/ \E c \in RootSchemas, v \in RootValues, x \in RootContexts, f \in FailureSets :
          model_validate(c, v, x, f)
    \/ \E c \in RootSchemas, v \in RootValues, x \in RootContexts, f \in FailureSets :
          call_run_root_validator(c, v, x, f)

(***************************************************************************)
(*                            Specifications                               *)
(***************************************************************************)

\* The state after construction: asyncable.__init__(method) has set __sync and
\* left __async None; no handler is registered or decorated.
Init ==
    /\ self_sync \in SyncImpls
    /\ self_async = None
    /\ running_loop = FALSE
    /\ held = NoHeld
    /\ calls = << >>
    /\ registered = NoRegistration
    /\ has_operation = [h \in Handlers |-> FALSE]
    /\ op_run = [h \in Handlers |-> << >>]
    /\ contrib = [h \in Handlers |-> << >>]
    /\ given = [h \in Handlers |-> << >>]
    /\ last_step = NoStep
    /\ classes = << SchemaClass >>
    /\ dicts = << EmptyDict >>
    /\ validated = NotValidated
    /\ getter = [obj |-> PyNone, resolvers |-> [k \in {} |-> None], context |-> PyNone]
    /\ looked = [key |-> << >>, status |-> "none"]
    /\ properties = << >>
    /\ root = NoRun

SpecAsync == Init /\ [][NextAsync]_vars

SpecDeco == Init /\ [][NextDeco]_vars

SpecMeta == Init /\ [][NextMeta]_vars

SpecGetter == Init /\ [][NextGetter]_vars

SpecJson == Init /\ [][NextJson]_vars

SpecRoot == Init /\ [][NextRoot]_vars

(***************************************************************************)
(*                               Properties                                *)
(***************************************************************************)

Reverse(s) == [i \in 1..Len(s) |-> s[Len(s) + 1 - i]]

RECURSIVE Flatten(_)
Flatten(ss) == IF ss = << >> THEN << >> ELSE Head(ss) \o Flatten(Tail(ss))

\* An invocation of the method: obj.method(...) or a call of the descriptor.
IsInvocation(c) == c.via \in { "attribute", "descriptor" }

C3_FirstListedInnermost ==
    /\ \A h \in Handlers :
          has_operation[h] => op_run[h] = Reverse(Flatten(given[h])) \o OriginalRun
    /\ \A h1, h2 \in Handlers :
          (has_operation[h1] /\ has_operation[h2] /\ given[h1] = given[h2])
             => op_run[h1] = op_run[h2]

\* view_a was registered and then decorated with (A, B); view_b was decorated
\* with (A, B) and then registered; both runs are B(A(run)).
C3_Witness ==
    /\ has_operation["view_a"] /\ has_operation["view_b"]
    /\ given["view_a"] = << << "A", "B" >> >> /\ contrib["view_a"] = << >>
    /\ given["view_b"] = << << "A", "B" >> >> /\ contrib["view_b"] = << << "A", "B" >> >>
    /\ op_run["view_a"] = << "B", "A", "run" >>
    /\ op_run["view_b"] = << "B", "A", "run" >>

\* A lookup has been made on the adapter.
HasLooked == looked.status # "none"

RaisesAttributeError ==
    /\ looked.status = "raise"
    /\ looked.error = "AttributeError"
    /\ looked.arg = looked.key

FoundIn(source, raw) ==
    /\ looked.status = "value"
    /\ looked.source = source
    /\ looked.raw = raw

\* C4: a lookup uses exactly one source, by priority: the resolver registered
\* for the key; otherwise, on a dictionary, the entry for the key; otherwise
\* the attribute of the object, and only when there is none the dotted path of
\* the key; with the key absent from a dictionary, or with neither attribute nor
\* path on an object, it fails with AttributeError(key) and with nothing else.
C4_OneSourceByPriority ==
    HasLooked =>
        IF looked.key \in DOMAIN getter.resolvers
        THEN looked.status = "value" /\ looked.source = "resolver"
        ELSE IF getter.obj.kind = "dict"
             THEN IF looked.key \in DOMAIN getter.obj.items
                  THEN FoundIn("dict", getter.obj.items[looked.key])
                  ELSE RaisesAttributeError
        ELSE IF looked.key \in DOMAIN getter.obj.items
             THEN FoundIn("attribute", getter.obj.items[looked.key])
        ELSE IF resolve_lookup(getter.obj, looked.key).status = "value"
             THEN FoundIn("dotted_path", resolve_lookup(getter.obj, looked.key).value)
        ELSE RaisesAttributeError

\* C4, for the keys none of whose parts begins with an underscore: there the
\* priority and the uniform AttributeError hold.
C4_HoldsWithoutUnderscore ==
    (\A i \in DOMAIN looked.key : looked.key[i] \notin UnderscoreNames)
        => C4_OneSourceByPriority

\* C5: whatever step found the value (resolver, dictionary entry, attribute or
\* dotted path), a manager is returned as the list of the rows of its all(), in
\* order; a queryset is returned as it is; another callable is called and its
\* return value returned; a file field becomes its URL, or None when unset; any
\* other value is returned unchanged.
C5_ResultCoercion ==
    looked.status = "value" =>
        /\ looked.raw.kind = "manager" => looked.result = ListOf(looked.raw.rows)
        /\ looked.raw.kind = "queryset" => looked.result = looked.raw
        /\ looked.raw.kind = "callable" => looked.result = looked.raw.returns
        /\ looked.raw.kind = "fieldfile" =>
              looked.result = IF looked.raw.name = "" THEN PyNone
                              ELSE Plain(<< "url", looked.raw.name >>)
        /\ looked.raw.kind \notin { "manager", "queryset", "callable", "fieldfile" }
              => looked.result = looked.raw

\* A resolver returned a queryset and the lookup handed it on untouched.
C5_Witness ==
    /\ looked.status = "value"
    /\ looked.source = "resolver"
    /\ looked.raw.kind = "queryset"
    /\ looked.result = QuerySetOf(<< "q1" >>)

\* The rendered schema without its "default" entry.
WithoutDefault(d) == [k \in DOMAIN d \ { "default" } |-> d[k]]

DefaultRule(p) ==
    /\ "default" \in DOMAIN p.result <=>
          (p.schema.has_default /\ p.schema.default # None)
    /\ "default" \in DOMAIN p.result =>
          p.result["default"] = encode_default(p.schema.default)

\* C6 as stated: a "default" is emitted only for a non-null declared default,
\* with its encoded value; a bare $ref inner schema is rendered as
\* {"allOf": [inner]} with the default beside allOf, and any other inner schema
\* is rendered as itself.
C6_BareRefWrappedElseItself ==
    \A i \in DOMAIN properties :
        /\ DefaultRule(properties[i])
        /\ IF DOMAIN generate_inner(properties[i].schema.schema) = { "$ref" }
           THEN WithoutDefault(properties[i].result) =
                   "allOf" :> << generate_inner(properties[i].schema.schema) >>
           ELSE WithoutDefault(properties[i].result) =
                   generate_inner(properties[i].schema.schema)

\* C6 amended: a "default" is emitted only for a non-null declared default, with
\* its encoded value; an inner schema that has a $ref key, bare or with sibling
\* keys, is rendered as {"allOf": [inner]} with the default beside allOf, and an
\* inner schema without a $ref key is rendered as itself.
C6_AnyRefWrappedElseItself ==
    \A i \in DOMAIN properties :
        /\ DefaultRule(properties[i])
        /\ IF "$ref" \in DOMAIN generate_inner(properties[i].schema.schema)
           THEN WithoutDefault(properties[i].result) =
                   "allOf" :> << generate_inner(properties[i].schema.schema) >>
           ELSE WithoutDefault(properties[i].result) =
                   generate_inner(properties[i].schema.schema)

\* One generation rendered a bare reference with a falsy non-null default
\* (emitted beside allOf) and a plain field whose default is None (not emitted).
C6_Witness ==
    /\ Len(properties) = 2
    /\ properties[1].schema = [schema |-> "SubModel", has_default |-> TRUE, default |-> "0"]
    /\ properties[1].result =
          ("allOf" :> << "$ref" :> "#/$defs/SubModel" >>) @@ ("default" :> "0")
    /\ properties[2].schema = [schema |-> "str", has_default |-> TRUE, default |-> None]
    /\ properties[2].result = ("type" :> "string")

\* The resolver mapping a class holds now, and the names its body declares
\* resolve_<name> functions for.
ResolversOf(i) == dicts[classes[i].ninja_resolvers]

OwnNames(i) ==
    { k \in DOMAIN classes[i].namespace : classes[i].namespace[k] # "not_callable" }

WrappedValue ==
    [kind |-> "DjangoGetter", obj |-> validated.value,
     schema_cls |-> validated.cls, context |-> ValidationContext]

IsHeldCall(c) == c.via = "held"

DecorateStep(h, ds) ==
    /\ last_step'.op = "decorate_view"
    /\ last_step'.handler = h
    /\ last_step'.decorators = ds
    /\ given' = [given EXCEPT ![h] = Append(@, ds)]

\* C10: a decorate_view call wraps the run of the handler's operation during the
\* call, in listed order, exactly when the handler already carries
\* _ninja_operation; otherwise the call changes no run, and the decorators given
\* so far are applied once each, in listed order, at the step that registers the
\* handler.
C10_ImmediateIffRegistered ==
    [][ \A h \in Handlers :
           /\ \A ds \in DecoratorTuples :
                 DecorateStep(h, ds) =>
                    IF has_operation[h]
                    THEN op_run' = [op_run EXCEPT ![h] = Reverse(ds) \o op_run[h]]
                    ELSE op_run' = op_run
           /\ (~has_operation[h] /\ has_operation'[h]) =>
                 op_run' = [op_run EXCEPT ![h] =
                               Reverse(Flatten(given[h])) \o OriginalRun]
      ]_vars

\* view_a was decorated with (A, B) while unregistered (nothing applied then)
\* and has just been registered; view_b is registered and was then decorated.
C10_Witness ==
    /\ last_step.op = "register" /\ last_step.handler = "view_a"
    /\ contrib["view_a"] = << << "A", "B" >> >>
    /\ op_run["view_a"] = << "B", "A", "run" >>
    /\ has_operation["view_b"]
    /\ contrib["view_b"] = << >>
    /\ given["view_b"] = << << "B" >> >>
    /\ op_run["view_b"] = << "B", "run" >>

\* The adapter around the value of the last validation run.
RootWrapped == validate_resolvers(root.cls, root.values, root.context)

\* The handler was run on the raw value first and only then on the wrapped
\* one, unless the first run raised.
DoublePass ==
    \/ root.calls = << root.values >> /\ root.outcome = "ValidationError"
    \/ root.calls = << root.values, RootWrapped >>

\* What the claim says of a run: two ordered passes for a schema that forbids
\* extra fields or validates on assignment, one pass on the wrapped value for
\* any other schema.
PassesAsDescribed ==
    IF forbids_extra(root.cls) \/ should_validate_assignment(root.cls)
    THEN DoublePass
    ELSE root.calls = << RootWrapped >>

InvokedResolver == getter.resolvers[looked.key]

\* C12: the adapter invokes a static resolver with the raw backing object as the
\* only positional argument, and with the keyword argument context (the
\* adapter's validation context) exactly when the resolver's function declares
\* a parameter named context or accepts arbitrary keyword arguments;
\* otherwise with the backing object alone.
C12_ContextPassedIffDeclared ==
    (HasLooked /\ looked.key \in DOMAIN getter.resolvers /\ InvokedResolver.static) =>
        LET func == InvokedResolver.func
            declares == \E i \in DOMAIN get_args_names(func) :
                            get_args_names(func)[i] = "context"
        IN /\ looked.status = "value"
           /\ looked.source = "resolver"
           /\ looked.call.args = << getter.obj >>
           /\ looked.call.kwargs =
                 IF declares \/ has_kwargs(func)
                 THEN "context" :> getter.context
                 ELSE [k \in {} |-> None]

\* A resolver that only accepts **kwargs was invoked with the backing object
\* and context=<the validation context>.
C12_Witness ==
    /\ HasLooked
    /\ looked.key = << "boss", "first_name" >>
    /\ looked.key \in DOMAIN getter.resolvers
    /\ InvokedResolver.func = "pending_of"
    /\ getter.context = Plain("request")
    /\ looked.call.args = << getter.obj >>
    /\ looked.call.kwargs = ("context" :> Plain("request"))

\* C13: asynchronous(method) never changes the synchronous implementation given
\* at construction and returns the descriptor itself; after every step the
\* descriptor holds that synchronous implementation and the asynchronous one
\* registered last.
C13_RegistrationKeepsSyncReturnsSelf ==
    [][ /\ self_sync' = self_sync
        /\ self_sync' \in SyncImpls
        /\ self_async' = registered'.method
        /\ registered' # registered => registered'.returned = "self" ]_vars

\* Two different asynchronous implementations were registered one after the
\* other (a call saw the first one), and the descriptor holds the second.
C13_Witness ==
    /\ \E i \in DOMAIN calls : calls[i].async = "async_impl_1"
    /\ registered = [method |-> "async_impl_2", returned |-> "self"]
    /\ self_async = "async_impl_2"
    /\ self_sync \in SyncImpls

====
